---------------------------- MODULE Spec2Model ----------------------------
(***************************************************************************)
(* A model of russound_rio/rio.py: the RIO session engine (class Russound) *)
(* with its line parser, state cache, callback fan-out, command queue and  *)
(* the IO loop that correlates one in-flight command with its terminal     *)
(* line.                                                                   *)
(*                                                                         *)
(* Text (bytes read from / written to the socket, variable names, values)  *)
(* is a sequence of one-character strings, so that strip(), s[0], s[2:],   *)
(* the regular expression, int(), %d and lower() are computed the way      *)
(* the code computes them.                                                 *)
(***************************************************************************)
EXTENDS Integers, Sequences, FiniteSets

(***************************************************************************)
(* Bounds of the model.                                                    *)
(***************************************************************************)
MaxCmds == 2        \* commands issued through _send_cmd in one run
MaxLines == 2       \* lines the device sends on its own in the session
MaxPushes == 1      \* the same, where callers read or subscribe meanwhile
MaxStores == 2      \* updates the device sends where only the cache is at stake
MaxBuffered == 1    \* lines sent on the device's own that wait unread
MaxCallbacks == 2   \* registered callbacks per kind (zone, source)
MaxCalls == 1       \* commands enqueued in a run where every operation is called

(***************************************************************************)
(* Python values.                                                          *)
(***************************************************************************)
None == <<"None">>

Max(S) == CHOOSE m \in S : \A n \in S : n <= m

Min(S) == CHOOSE m \in S : \A n \in S : m <= n

EmptyDict == [k \in {} |-> None]

DictSet(d, k, v) == [x \in (DOMAIN d) \cup {k} |-> IF x = k THEN v ELSE d[x]]

(***************************************************************************)
(* Characters.                                                             *)
(***************************************************************************)
Whitespace == {" ", "\t", "\n", "\r", "\f"}

DigitChars == <<"0", "1", "2", "3", "4", "5", "6", "7", "8", "9">>

Digit == {DigitChars[i] : i \in 1..10}

UpperChars == <<"A", "B", "C", "D", "E", "F", "G", "H", "I", "J", "K", "L", "M",
                "N", "O", "P", "Q", "R", "S", "T", "U", "V", "W", "X", "Y", "Z">>

LowerChars == <<"a", "b", "c", "d", "e", "f", "g", "h", "i", "j", "k", "l", "m",
                "n", "o", "p", "q", "r", "s", "t", "u", "v", "w", "x", "y", "z">>

\* str.lower(), character by character
lower(name) ==
    [i \in 1..Len(name) |->
        IF \E j \in 1..26 : UpperChars[j] = name[i]
        THEN LowerChars[CHOOSE j \in 1..26 : UpperChars[j] = name[i]]
        ELSE name[i]]

\* str.strip(): leading and trailing whitespace removed
strip(s) ==
    LET keep == {i \in 1..Len(s) : s[i] \notin Whitespace}
    IN  IF keep = {} THEN <<>> ELSE SubSeq(s, Min(keep), Max(keep))

\* int() of a string of decimal digits
RECURSIVE int(_)
int(d) ==
    IF Len(d) = 0 THEN 0
    ELSE 10 * int(SubSeq(d, 1, Len(d) - 1))
         + ((CHOOSE i \in 1..10 : DigitChars[i] = d[Len(d)]) - 1)

\* '%d' % n, for n >= 0
RECURSIVE fmt_d(_)
fmt_d(n) ==
    IF n < 10 THEN <<DigitChars[n + 1]>>
    ELSE fmt_d(n \div 10) \o <<DigitChars[(n % 10) + 1]>>

(***************************************************************************)
(* ZoneID: zone and controller are int()-converted; equality and hash are  *)
(* by the (controller, zone) pair, which is record equality here.          *)
(***************************************************************************)
ZoneID(zone, controller) == [controller |-> int(controller), zone |-> int(zone)]

\* ZoneID.device_str
device_str(zone_id) ==
    <<"C", "[">> \o fmt_d(zone_id.controller) \o <<"]", ".", "Z", "[">>
                 \o fmt_d(zone_id.zone) \o <<"]">>

\* 'S[%d]' % source_id
source_str(source_id) == <<"S", "[">> \o fmt_d(source_id) \o <<"]">>

(***************************************************************************)
(* _re_response.match(payload).  The pattern, with Q for the double-quote  *)
(* character and ANY for the dot:                                          *)
(*   ( S[ <source: digits> ]  |  C[ <controller: digits> ] ANY             *)
(*     Z[ <zone: digits> ] )  .  <variable: greedy non-space run>  = Q     *)
(*     <value: greedy run of ANY>  Q                                       *)
(* A payload never holds a newline: readline() ends a line at the first    *)
(* one and strip() removes it, so ANY matches every character here.        *)
(***************************************************************************)
\* the last index of the run \d+ that starts at i, or 0 when p[i] is no digit
DigitRunEnd(p, i) ==
    LET ends == {j \in i..Len(p) : \A k \in i..j : p[k] \in Digit}
    IN  IF ends = {} THEN 0 ELSE Max(ends)

At(p, i, c) == i <= Len(p) /\ p[i] = c

NoAddress == [ok |-> FALSE, source |-> None, controller |-> None,
              zone |-> None, next |-> 0]

\* the alternation of the two address forms, anchored at the payload's start
MatchAddress(p) ==
    IF At(p, 1, "S") /\ At(p, 2, "[")
    THEN LET e == DigitRunEnd(p, 3)
         IN  IF e > 0 /\ At(p, e + 1, "]")
             THEN [ok |-> TRUE, source |-> SubSeq(p, 3, e), controller |-> None,
                   zone |-> None, next |-> e + 2]
             ELSE NoAddress
    ELSE IF At(p, 1, "C") /\ At(p, 2, "[")
    THEN LET e1 == DigitRunEnd(p, 3)
         IN  IF e1 > 0 /\ At(p, e1 + 1, "]") /\ e1 + 2 <= Len(p)
                /\ At(p, e1 + 3, "Z") /\ At(p, e1 + 4, "[")
             THEN LET e2 == DigitRunEnd(p, e1 + 5)
                  IN  IF e2 > 0 /\ At(p, e2 + 1, "]")
                      THEN [ok |-> TRUE, source |-> None,
                            controller |-> SubSeq(p, 3, e1),
                            zone |-> SubSeq(p, e1 + 5, e2), next |-> e2 + 2]
                      ELSE NoAddress
             ELSE NoAddress
    ELSE NoAddress

NoMatch == [matched |-> FALSE, source |-> None, controller |-> None,
            zone |-> None, variable |-> None, value |-> None]

\* the whole pattern: greedy \S+ and greedy .* with backtracking
_re_response(p) ==
    LET a == MatchAddress(p)
    IN  IF ~a.ok \/ ~At(p, a.next, ".") THEN NoMatch
        ELSE LET v0 == a.next + 1
                 \* ends i of <variable> after which the quoted value can still match
                 varEnds == {i \in v0..Len(p) :
                               /\ \A k \in v0..i : p[k] \notin Whitespace
                               /\ At(p, i + 1, "=") /\ At(p, i + 2, "\"")
                               /\ \E j \in (i + 3)..Len(p) : p[j] = "\""}
             IN  IF varEnds = {} THEN NoMatch
                 ELSE LET i == Max(varEnds)
                          j == Max({q \in (i + 3)..Len(p) : p[q] = "\""})
                      IN  [matched |-> TRUE, source |-> a.source,
                           controller |-> a.controller, zone |-> a.zone,
                           variable |-> SubSeq(p, v0, i),
                           value |-> SubSeq(p, i + 3, j - 1)]

(***************************************************************************)
(* The session state (Russound.__init__) and its environment.              *)
(***************************************************************************)
VARIABLES
    _ioloop_future,     \* the loop task (line 249)
    pc,                 \* where the loop task is suspended
    queue_future,       \* the loop's task around _cmd_queue.get()
    net_future,         \* the loop's task around reader.readline()
    cur,                \* the loop's locals cmd, future (line 175)
    _cmd_queue,         \* asyncio.Queue of (cmd, future)
    futures,            \* the futures _send_cmd created, in creation order
    _zone_state,
    _source_state,
    _zone_callbacks,
    _source_callbacks,
    _watched_zones,
    _watched_sources,
    watching,           \* the watch_* calls suspended in _send_cmd
    reader,             \* socket input not yet taken by readline()
    written,            \* what writer.write() was given, in order
    writer_closed,
    device,             \* the far end: [sent, replied, ended]
    puts,               \* history: the command texts put on _cmd_queue, in order
    flights,            \* history: the futures of the commands written, in order
    calls,              \* the callback invocations made by the step just taken
    ret                 \* what the synchronous call just made returned

vars == <<_ioloop_future, pc, queue_future, net_future, cur, _cmd_queue, futures,
          _zone_state, _source_state, _zone_callbacks, _source_callbacks,
          _watched_zones, _watched_sources, watching, reader, written,
          writer_closed, device, puts, flights, calls, ret>>

loopVars == <<_ioloop_future, pc, queue_future, net_future, cur>>

cacheVars == <<_zone_state, _source_state>>

callbackVars == <<_zone_callbacks, _source_callbacks>>

watchVars == <<_watched_zones, _watched_sources, watching>>

socketVars == <<reader, written, writer_closed, device>>

\* asyncio.Future states: pending, or done with a result, an exception or
\* a cancellation
Pending == [state |-> "pending", value |-> None, exc |-> "none"]

Result(v) == [state |-> "result", value |-> v, exc |-> "none"]

Exception(e, arg) == [state |-> "exception", value |-> arg, exc |-> e]

Cancelled == [state |-> "cancelled", value |-> None, exc |-> "none"]

NoFuture == [state |-> "none", value |-> None, exc |-> "none"]

NoCommand == [cmd |-> <<>>, future |-> 0]

\* the future of _cmd_queue.get(), whose result is a queue item
QueuePending == [state |-> "pending", value |-> NoCommand, exc |-> "none"]

NoQueueFuture == [state |-> "none", value |-> NoCommand, exc |-> "none"]

\* where a call or a callback invocation names no zone, or no source
NoZone == [controller |-> 0, zone |-> 0]

NoSource == 0

\* the arguments of a caller's call: the zone or the source, the variable, and
\* the value or the default where the call takes one
Args(zone_id, source_id, variable, arg) ==
    [zone |-> zone_id, source |-> source_id, variable |-> variable, arg |-> arg]

\* a caller's call, and the value it returned at once, the future it waits on,
\* or the exception it raised to the caller
Returned(name, args, value) ==
    [call |-> name, args |-> args, value |-> value, future |-> 0, exc |-> "none"]

Awaits(name, args, future) ==
    [call |-> name, args |-> args, value |-> None, future |-> future,
     exc |-> "none"]

Raised(name, args, exc) ==
    [call |-> name, args |-> args, value |-> None, future |-> 0, exc |-> exc]

NoArgs == Args(NoZone, NoSource, None, None)

NoCall == [call |-> "none", args |-> NoArgs, value |-> None, future |-> 0,
           exc |-> "none"]

Init ==
    /\ _ioloop_future = NoFuture
    /\ pc = "none"
    /\ queue_future = NoQueueFuture
    /\ net_future = NoFuture
    /\ cur = NoCommand
    /\ _cmd_queue = <<>>
    /\ futures = <<>>
    /\ _zone_state = EmptyDict
    /\ _source_state = EmptyDict
    /\ _zone_callbacks = <<>>
    /\ _source_callbacks = <<>>
    /\ _watched_zones = {}
    /\ _watched_sources = {}
    /\ watching = {}
    /\ reader = <<>>
    /\ written = <<>>
    /\ writer_closed = FALSE
    /\ device = [sent |-> 0, replied |-> 0, ended |-> FALSE]
    /\ puts = <<>>
    /\ flights = <<>>
    /\ calls = <<>>
    /\ ret = NoCall

\* a step that invokes no callback and returns nothing to a synchronous caller
Silent == calls' = <<>> /\ ret' = NoCall

(***************************************************************************)
(* a store that keeps the name as it came                                  *)
(***************************************************************************)
Store_keeps_case(kind, cache, callbacks, id, zone_id, source_id, name, value, raises) ==
    LET entity == IF id \in DOMAIN cache THEN cache[id] ELSE EmptyDict
        new == DictSet(cache, id, DictSet(entity, name, value))
        n == IF raises \in 1..Len(callbacks) THEN raises ELSE Len(callbacks)
    IN  [cache |-> new,
         calls |-> [i \in 1..n |-> [registry |-> kind,
                                    callback |-> callbacks[i],
                                    zone |-> zone_id,
                                    source |-> source_id,
                                    name |-> name,
                                    value |-> value,
                                    seen |-> new[id][name]]],
         raised |-> raises \in 1..Len(callbacks)]

(***************************************************************************)
(* State cache and callback fan-out (lines 73-125).  A store gives the new *)
(* cache and the callback invocations it made, in order; raises = k > 0    *)
(* says the k-th registered callback raises (callbacks are the             *)
(* subscriber's code).  Each invocation records the registry it came from  *)
(* and the cache value the callback can see when it runs.                  *)
(***************************************************************************)
Store(kind, cache, callbacks, id, zone_id, source_id, name, value, raises) ==
    LET entity == IF id \in DOMAIN cache THEN cache[id] ELSE EmptyDict
        lname == lower(name)
        new == DictSet(cache, id, DictSet(entity, lname, value))
        n == IF raises \in 1..Len(callbacks) THEN raises ELSE Len(callbacks)
    IN  [cache |-> new,
         calls |-> [i \in 1..n |-> [registry |-> kind,
                                    callback |-> callbacks[i],
                                    zone |-> zone_id,
                                    source |-> source_id,
                                    name |-> lname,
                                    value |-> value,
                                    seen |-> new[id][lname]]],
         raised |-> raises \in 1..Len(callbacks)]

_store_cached_zone_variable(zone_id, name, value, raises) ==
    Store("zone", _zone_state, _zone_callbacks, zone_id, zone_id, NoSource,
          name, value, raises)

_store_cached_source_variable(source_id, name, value, raises) ==
    Store("source", _source_state, _source_callbacks, source_id, NoZone, source_id,
          name, value, raises)

\* the cached value, or UncachedVariable (KeyError on either dict)
Retrieve(cache, id, name) ==
    IF id \in DOMAIN cache /\ lower(name) \in DOMAIN cache[id]
    THEN [found |-> TRUE, value |-> cache[id][lower(name)]]
    ELSE [found |-> FALSE, value |-> None]

_retrieve_cached_zone_variable(zone_id, name) == Retrieve(_zone_state, zone_id, name)

_retrieve_cached_source_variable(source_id, name) ==
    Retrieve(_source_state, source_id, name)

(***************************************************************************)
(* The inputs of the model: the entities, variables and values callers     *)
(* name, the raw lines the device sends and the socket's failures.         *)
(***************************************************************************)
Text_GET == <<"G", "E", "T", " ">>

Text_SET == <<"S", "E", "T", " ">>

Quote == <<"\"">>

CRLF == <<"\r", "\n">>

Zone12 == ZoneID(<<"2">>, <<"1">>)      \* ZoneID(2, 1): controller 1, zone 2

Zone21 == ZoneID(<<"1">>, <<"2">>)      \* ZoneID(1, 2): controller 2, zone 1

Var_V == <<"V">>

Var_v == <<"v">>

Var_n == <<"n">>

Var_N == <<"N">>

Var_x == <<"x">>

\* the defaults callers give the cached getters
Defaults == {None, <<"0">>}

Callbacks == {"cb1", "cb2"}

\* readline() at end of stream returns b''; a read error makes it raise
EndOfStream == <<>>

ReadError == <<"ConnectionResetError">>

\* <type> <address>.<variable>="<value>" CR LF
UpdateLine(ty, address, variable, value) ==
    <<ty, " ">> \o address \o <<".">> \o variable \o <<"=">>
                \o Quote \o value \o Quote \o CRLF

ZonePush == UpdateLine("N", <<"C", "[", "0", "1", "]", ".", "Z", "[", "2", "]">>,
                       Var_V, <<"5">>)

SourceStatus == UpdateLine("S", <<"S", "[", "3", "]">>, Var_n, <<"K">>)

Unmatched == <<"N", " ", "h", "i">> \o CRLF

Blank == CRLF

ErrorLine == <<"E", " ", "n", "o">> \o CRLF

Ack == <<"S">> \o CRLF

\* the lines of the cache scenarios: two zones, one of them addressed in two
\* spellings, one source, names that differ in case only, two values
CacheLines ==
    {UpdateLine("S", a, v, x) :
        a \in { <<"C", "[", "1", "]", ".", "Z", "[", "2", "]">>,
                <<"C", "[", "0", "1", "]", ".", "Z", "[", "0", "2", "]">>,
                <<"C", "[", "2", "]", ".", "Z", "[", "1", "]">>,
                <<"S", "[", "1", "]">> },
        v \in { <<"N", "a">>, <<"n", "A">>, <<"b">> },
        x \in { <<"A">>, <<"B">> }}

\* the command texts (lines 270, 282, 324, 337)
SetZoneText(zone_id, variable, value) ==
    Text_SET \o device_str(zone_id) \o <<".">> \o variable
             \o <<"=">> \o Quote \o value \o Quote

GetZoneText(zone_id, variable) ==
    Text_GET \o device_str(zone_id) \o <<".">> \o variable

SetSourceText(source_id, variable, value) ==
    Text_SET \o source_str(source_id) \o <<".">> \o variable
             \o <<"=">> \o Quote \o value \o Quote

GetSourceText(source_id, variable) ==
    Text_GET \o source_str(source_id) \o <<".">> \o variable

\* the device's answers to a command it received: an error, or the status of
\* the variable a GET asked for, or a bare acknowledgement
IsGet(cmd) == Len(cmd) > 4 /\ SubSeq(cmd, 1, 4) = Text_GET

Replies(cmd) ==
    {ErrorLine}
    \cup (IF IsGet(cmd)
          THEN {UpdateLine("S", SubSeq(cmd, 5, Len(cmd) - 3),
                           SubSeq(cmd, Len(cmd) - 1, Len(cmd) - 1), <<"7">>)}
          ELSE {Ack})

\* every text readline() can return in this model
Deliverable ==
    {ZonePush, SourceStatus, Unmatched, Blank, ErrorLine, Ack, EndOfStream}
    \cup CacheLines
    \cup UNION {Replies(c \o <<"\r">>) :
                  c \in {GetZoneText(Zone12, Var_V), GetZoneText(Zone12, Var_v),
                         GetSourceText(3, Var_n)}}

(***************************************************************************)
(* _process_response (lines 127-149): what it returns or raises, the cache *)
(* it leaves and the callbacks it invoked.                                 *)
(***************************************************************************)
Outcome(exc, arg, ty, value, zs, ss, cs) ==
    [exc |-> exc, arg |-> arg, ty |-> ty, value |-> value,
     zone_state |-> zs, source_state |-> ss, calls |-> cs]

\* lines 128, 129 and 134: the stripped text, and the match of its payload
\* s[2:] (no match stands in for an empty text, where s[0] raises IndexError)
Scan(res) ==
    LET s == strip(res)
    IN  [s |-> s,
         m |-> IF Len(s) = 0 THEN NoMatch ELSE _re_response(SubSeq(s, 3, Len(s)))]

\* Scan, computed once for every text the socket can deliver
ScanTable == [res \in Deliverable |-> Scan(res)]

\* lines 138-149: the store the match selects, and what is returned
Dispatch(ty, p, raises) ==
    IF p.source # None
    THEN LET st == _store_cached_source_variable(
                       int(p.source), p.variable, p.value, raises)
         IN  Outcome(IF st.raised THEN "CallbackError" ELSE "none", None,
                     ty, p.value, _zone_state, st.cache, st.calls)
    ELSE LET st == _store_cached_zone_variable(
                       ZoneID(p.zone, p.controller), p.variable, p.value, raises)
         IN  Outcome(IF st.raised THEN "CallbackError" ELSE "none", None,
                     ty, p.value, st.cache, _source_state, st.calls)

\* a response handler that caches the updates of status lines only
Respond_status_only(s, p, raises) ==
    IF Len(s) = 0
    THEN Outcome("IndexError", None, "", None, _zone_state, _source_state, <<>>)
    ELSE IF s[1] = "E"
    THEN Outcome("CommandException", SubSeq(s, 3, Len(s)), s[1], None,
                 _zone_state, _source_state, <<>>)
    ELSE IF ~p.matched \/ s[1] # "S"
    THEN Outcome("none", None, s[1], None, _zone_state, _source_state, <<>>)
    ELSE Dispatch(s[1], p, raises)

\* lines 129-136 on the stripped text s and the match p of its payload
Respond(s, p, raises) ==
    IF Len(s) = 0
    THEN Outcome("IndexError", None, "", None, _zone_state, _source_state, <<>>)
    ELSE IF s[1] = "E"
    THEN Outcome("CommandException", SubSeq(s, 3, Len(s)), s[1], None,
                 _zone_state, _source_state, <<>>)
    ELSE IF ~p.matched
    THEN Outcome("none", None, s[1], None, _zone_state, _source_state, <<>>)
    ELSE Dispatch(s[1], p, raises)

_process_response(res, raises) == Respond(ScanTable[res].s, ScanTable[res].m, raises)

(***************************************************************************)
(* connect (lines 241-251): the loop task starts, with its two racing      *)
(* futures (lines 153-156), and suspends in asyncio.wait (line 160).       *)
(***************************************************************************)
connect ==
    /\ _ioloop_future.state = "none"
    /\ _ioloop_future' = Pending
    /\ pc' = "wait"
    /\ queue_future' = QueuePending
    /\ net_future' = Pending
    /\ Silent
    /\ UNCHANGED <<cur, _cmd_queue, futures, cacheVars, callbackVars, watchVars,
                   socketVars, puts, flights>>

(***************************************************************************)
(* The two racing tasks.  _cmd_queue.get() takes the head of the queue;    *)
(* reader.readline() takes the next line, b'' at end of stream, or raises. *)
(* Neither is cancelled when the loop ends with an exception (line 202).   *)
(***************************************************************************)
\* a queue that hands out its newest item first
QueueGet_newest_first ==
    /\ queue_future.state = "pending"
    /\ _cmd_queue # <<>>
    /\ queue_future' = Result(_cmd_queue[Len(_cmd_queue)])
    /\ _cmd_queue' = SubSeq(_cmd_queue, 1, Len(_cmd_queue) - 1)
    /\ Silent
    /\ UNCHANGED <<_ioloop_future, pc, net_future, cur, futures, cacheVars,
                   callbackVars, watchVars, socketVars, puts, flights>>

QueueGet ==
    /\ queue_future.state = "pending"
    /\ _cmd_queue # <<>>
    /\ queue_future' = Result(Head(_cmd_queue))
    /\ _cmd_queue' = Tail(_cmd_queue)
    /\ Silent
    /\ UNCHANGED <<_ioloop_future, pc, net_future, cur, futures, cacheVars,
                   callbackVars, watchVars, socketVars, puts, flights>>

NetRead ==
    /\ net_future.state = "pending"
    /\ reader # <<>>
    /\ net_future' = IF Head(reader) = ReadError
                     THEN Exception("ConnectionResetError", None)
                     ELSE Result(Head(reader))
    /\ reader' = Tail(reader)
    /\ Silent
    /\ UNCHANGED <<_ioloop_future, pc, queue_future, cur, _cmd_queue, futures,
                   cacheVars, callbackVars, watchVars, written, writer_closed,
                   device, puts, flights>>

(***************************************************************************)
(* _ioloop (lines 151-204).                                                *)
(***************************************************************************)
Done(f) == f.state \in {"result", "exception"}

\* which registered callback, if any, raises while a line is processed
RaiseChoices == 0..Max({Len(_zone_callbacks), Len(_source_callbacks)})

\* a loop that an exception does not end
Failed_carries_on(exc) == Pending

\* the task ends with an exception (lines 202-204): nothing is cancelled
Failed(exc) == Exception(exc, None)

\* Future.set_result / set_exception raise InvalidStateError unless pending
CanSet(f) == futures[f].state = "pending"

\* lines 174-177: the dequeued command is written; writer.drain() is a
\* possible suspension point
WriteCommand ==
    IF Done(queue_future)
    THEN /\ cur' = queue_future.value
         /\ written' = Append(written, queue_future.value.cmd \o <<"\r">>)
         /\ flights' = Append(flights, queue_future.value.future)
         /\ pc' = "drain"
    ELSE /\ pc' = "wait"
         /\ UNCHANGED <<cur, written, flights>>

\* lines 165-177 once the line, if one was read, gave outcome r; exc is the
\* exception that leaves the loop, if any (CommandException is swallowed)
AfterWait(r, exc) ==
    /\ _zone_state' = r.zone_state
    /\ _source_state' = r.source_state
    /\ calls' = r.calls
    /\ IF exc # "none"
       THEN /\ _ioloop_future' = Failed(exc)
            /\ pc' = "done"
            /\ UNCHANGED <<queue_future, net_future, cur, written, flights>>
       ELSE /\ net_future' = IF Done(net_future) THEN Pending ELSE net_future
            /\ WriteCommand
            /\ UNCHANGED <<_ioloop_future, queue_future>>

\* an idle loop that lets the error of an error line out
WaitOutcome_raises(r) == AfterWait(r, r.exc)

WaitOutcome(r) ==
    AfterWait(r, IF r.exc = "CommandException" THEN "none" ELSE r.exc)

\* one wake-up from asyncio.wait (lines 160-177)
IoloopWait ==
    /\ _ioloop_future.state = "pending"
    /\ pc = "wait"
    /\ Done(net_future) \/ Done(queue_future)
    /\ \E raises \in RaiseChoices :
         IF net_future.state = "exception"
         THEN AfterWait(Outcome("none", None, "", None,
                                _zone_state, _source_state, <<>>), net_future.exc)
         ELSE IF net_future.state = "result"
         THEN WaitOutcome(_process_response(net_future.value, raises))
         ELSE AfterWait(Outcome("none", None, "", None,
                                _zone_state, _source_state, <<>>), "none")
    /\ ret' = NoCall
    /\ UNCHANGED <<_cmd_queue, futures, callbackVars, watchVars, reader,
                   writer_closed, device, puts>>

\* writer.drain() returns; the next queue get is armed (lines 178-181) and the
\* loop waits for the lines of the command in flight (line 184)
IoloopDrain ==
    /\ _ioloop_future.state = "pending"
    /\ pc = "drain"
    /\ queue_future' = QueuePending
    /\ pc' = "inner"
    /\ Silent
    /\ UNCHANGED <<_ioloop_future, net_future, cur, _cmd_queue, futures, cacheVars,
                   callbackVars, watchVars, socketVars, puts, flights>>

\* an inner loop that only an error line ends
Terminal_only_errors(r) == r.exc = "CommandException"

\* lines 187-194 once the line gave outcome r: a terminal line resolves the
\* future of the command in flight, any other line leaves the loop waiting
Terminal(r) == r.exc = "CommandException" \/ (r.exc = "none" /\ r.ty = "S")

Resolve(r) ==
    IF ~CanSet(cur.future)
    THEN /\ _ioloop_future' = Failed("InvalidStateError")
         /\ pc' = "done"
         /\ UNCHANGED <<cur, futures>>
    ELSE /\ futures' = [futures EXCEPT ![cur.future] =
                           IF r.exc = "CommandException"
                           THEN Exception("CommandException", r.arg)
                           ELSE Result(r.value)]
         /\ cur' = NoCommand
         /\ pc' = "wait"
         /\ UNCHANGED _ioloop_future

\* an inner loop that any line ends, terminal or not
Continue_breaks(r) ==
    IF r.exc # "none"
    THEN /\ _ioloop_future' = Failed(r.exc)
         /\ pc' = "done"
         /\ UNCHANGED <<cur, futures>>
    ELSE /\ pc' = "wait"
         /\ cur' = NoCommand
         /\ UNCHANGED <<_ioloop_future, futures>>

\* a line that is not terminal: the loop stays in the inner wait (line 184),
\* or ends with the exception processing the line raised
Continue(r) ==
    IF r.exc # "none"
    THEN /\ _ioloop_future' = Failed(r.exc)
         /\ pc' = "done"
         /\ UNCHANGED <<cur, futures>>
    ELSE UNCHANGED <<_ioloop_future, pc, cur, futures>>

AfterInner(r) ==
    /\ net_future' = Pending
    /\ _zone_state' = r.zone_state
    /\ _source_state' = r.source_state
    /\ calls' = r.calls
    /\ IF Terminal(r) THEN Resolve(r) ELSE Continue(r)

\* one line read while a command is in flight (lines 183-194)
IoloopInner ==
    /\ _ioloop_future.state = "pending"
    /\ pc = "inner"
    /\ Done(net_future)
    /\ \E raises \in RaiseChoices :
         IF net_future.state = "exception"
         THEN /\ _ioloop_future' = Failed(net_future.exc)
              /\ pc' = "done"
              /\ calls' = <<>>
              /\ UNCHANGED <<net_future, cur, futures, cacheVars>>
         ELSE AfterInner(_process_response(net_future.value, raises))
    /\ ret' = NoCall
    /\ UNCHANGED <<queue_future, _cmd_queue, callbackVars, watchVars, socketVars,
                   puts, flights>>

(***************************************************************************)
(* close (lines 253-263).  Task.cancel() on the running task throws         *)
(* CancelledError into the loop where it is suspended (lines 160, 177 or    *)
(* 184); the handler (lines 196-201) closes the writer, cancels the two     *)
(* racing futures and re-raises, the task ends cancelled and close, which   *)
(* waits for it, swallows the CancelledError and returns.  On a task that   *)
(* already ended cancel() does nothing, and waiting for the task raises     *)
(* what it ended with: a CancelledError is swallowed, any other exception   *)
(* leaves close, and nothing closes the writer.                             *)
(***************************************************************************)
Cancel(f) == IF f.state = "pending" THEN [f EXCEPT !.state = "cancelled"] ELSE f

\* a close that also cancels the futures the callers wait on
close_cancels_callers ==
    /\ _ioloop_future.state = "pending"
    /\ _ioloop_future' = Cancelled
    /\ pc' = "done"
    /\ writer_closed' = TRUE
    /\ queue_future' = Cancel(queue_future)
    /\ net_future' = Cancel(net_future)
    /\ futures' = [f \in 1..Len(futures) |-> Cancel(futures[f])]
    /\ ret' = Returned("close", NoArgs, None)
    /\ calls' = <<>>
    /\ UNCHANGED <<cur, _cmd_queue, cacheVars, callbackVars, watchVars, reader,
                   written, device, puts, flights>>

close ==
    /\ _ioloop_future.state # "none"
    /\ IF _ioloop_future.state = "pending"
       THEN /\ _ioloop_future' = Cancelled
            /\ pc' = "done"
            /\ writer_closed' = TRUE
            /\ queue_future' = Cancel(queue_future)
            /\ net_future' = Cancel(net_future)
            /\ ret' = Returned("close", NoArgs, None)
       ELSE /\ ret' = IF _ioloop_future.state = "exception"
                      THEN Raised("close", NoArgs, _ioloop_future.exc)
                      ELSE Returned("close", NoArgs, None)
            /\ UNCHANGED <<_ioloop_future, pc, queue_future, net_future,
                           writer_closed>>
    /\ calls' = <<>>
    /\ UNCHANGED <<cur, _cmd_queue, futures, cacheVars, callbackVars, watchVars,
                   reader, written, device, puts, flights>>

(***************************************************************************)
(* The device and the socket.  The device sends lines on its own (at most  *)
(* limit of them, and only while fewer than MaxBuffered wait unread) and   *)
(* answers each command it received, in order.  Nothing arrives after the  *)
(* end of the stream or a read error.                                      *)
(***************************************************************************)
Connected == _ioloop_future.state # "none" /\ ~writer_closed

DevicePush(events, limit) ==
    /\ Connected
    /\ device.sent < limit
    /\ Len(reader) < MaxBuffered
    /\ ~device.ended
    /\ \E ev \in events :
         /\ reader' = Append(reader, ev)
         /\ device' = [device EXCEPT !.sent = @ + 1,
                                     !.ended = ev \in {EndOfStream, ReadError}]
    /\ Silent
    /\ UNCHANGED <<loopVars, _cmd_queue, futures, cacheVars, callbackVars,
                   watchVars, written, writer_closed, puts, flights>>

DeviceReply ==
    /\ Connected
    /\ device.replied < Len(written)
    /\ ~device.ended
    /\ \E line \in Replies(written[device.replied + 1]) :
         reader' = Append(reader, line)
    /\ device' = [device EXCEPT !.replied = @ + 1]
    /\ Silent
    /\ UNCHANGED <<loopVars, _cmd_queue, futures, cacheVars, callbackVars,
                   watchVars, written, writer_closed, puts, flights>>

(***************************************************************************)
(* _send_cmd (lines 206-211): a new future, put with the command on the    *)
(* unbounded queue; the caller then waits on the future.                   *)
(***************************************************************************)
_send_cmd(cmd) ==
    /\ Len(futures) < MaxCmds
    /\ futures' = Append(futures, Pending)
    /\ _cmd_queue' = Append(_cmd_queue, [cmd |-> cmd, future |-> Len(futures) + 1])
    /\ puts' = Append(puts, cmd)

\* a caller abandons its wait: cancelling the waiting task cancels the future
CancelWait ==
    /\ \E f \in 1..Len(futures) :
         /\ futures[f].state = "pending"
         /\ futures' = [futures EXCEPT ![f] = Cancelled]
    /\ Silent
    /\ UNCHANGED <<loopVars, _cmd_queue, cacheVars, callbackVars, watchVars,
                   socketVars, puts, flights>>

\* set_zone_variable (lines 265-271)
\* a set that stores the value it sends
set_zone_variable_optimistic(zone_id, variable, value) ==
    /\ _send_cmd(SetZoneText(zone_id, variable, value))
    /\ ret' = Awaits("set_zone_variable", Args(zone_id, NoSource, variable, value),
                     Len(futures) + 1)
    /\ calls' = <<>>
    /\ _zone_state' = _store_cached_zone_variable(zone_id, variable, value, 0).cache
    /\ UNCHANGED <<loopVars, _source_state, callbackVars, watchVars, socketVars,
                   flights>>

set_zone_variable(zone_id, variable, value) ==
    /\ _send_cmd(SetZoneText(zone_id, variable, value))
    /\ ret' = Awaits("set_zone_variable", Args(zone_id, NoSource, variable, value),
                     Len(futures) + 1)
    /\ calls' = <<>>
    /\ UNCHANGED <<loopVars, cacheVars, callbackVars, watchVars, socketVars,
                   flights>>

\* set_source_variable (lines 320-325)
set_source_variable(source_id, variable, value) ==
    /\ _send_cmd(SetSourceText(source_id, variable, value))
    /\ ret' = Awaits("set_source_variable", Args(NoZone, source_id, variable, value),
                     Len(futures) + 1)
    /\ calls' = <<>>
    /\ UNCHANGED <<loopVars, cacheVars, callbackVars, watchVars, socketVars,
                   flights>>

\* a getter that asks the device whatever the cache holds
FromCacheOrSend_always_sends(name, args, c, text) ==
    /\ _send_cmd(text)
    /\ ret' = Awaits(name, args, Len(futures) + 1)

\* lines 278-283 and 333-338: the cached value if there is one (c is the
\* lookup), else the text is sent as a command
FromCacheOrSend(name, args, c, text) ==
    IF c.found
    THEN /\ ret' = Returned(name, args, c.value)
         /\ UNCHANGED <<_cmd_queue, futures, puts>>
    ELSE /\ _send_cmd(text)
         /\ ret' = Awaits(name, args, Len(futures) + 1)

\* get_zone_variable (lines 273-283)
get_zone_variable(zone_id, variable) ==
    /\ FromCacheOrSend("get_zone_variable",
                       Args(zone_id, NoSource, variable, None),
                       _retrieve_cached_zone_variable(zone_id, variable),
                       GetZoneText(zone_id, variable))
    /\ calls' = <<>>
    /\ UNCHANGED <<loopVars, cacheVars, callbackVars, watchVars, socketVars,
                   flights>>

\* get_source_variable (lines 327-338)
get_source_variable(source_id, variable) ==
    /\ FromCacheOrSend("get_source_variable",
                       Args(NoZone, source_id, variable, None),
                       _retrieve_cached_source_variable(source_id, variable),
                       GetSourceText(source_id, variable))
    /\ calls' = <<>>
    /\ UNCHANGED <<loopVars, cacheVars, callbackVars, watchVars, socketVars,
                   flights>>

\* a cached getter that answers a miss with None, whatever the default
FromCache_ignores_default(name, args, c, default) ==
    /\ ret' = Returned(name, args, c.value)
    /\ UNCHANGED <<_cmd_queue, futures, puts>>

\* lines 289-292 and 346-349: the cached value if there is one, else default
FromCache(name, args, c, default) ==
    /\ ret' = Returned(name, args, IF c.found THEN c.value ELSE default)
    /\ UNCHANGED <<_cmd_queue, futures, puts>>

\* get_cached_zone_variable (lines 285-292)
get_cached_zone_variable(zone_id, variable, default) ==
    /\ FromCache("get_cached_zone_variable",
                 Args(zone_id, NoSource, variable, default),
                 _retrieve_cached_zone_variable(zone_id, variable), default)
    /\ calls' = <<>>
    /\ UNCHANGED <<loopVars, cacheVars, callbackVars, watchVars, socketVars,
                   flights>>

\* get_cached_source_variable (lines 340-349)
get_cached_source_variable(source_id, variable, default) ==
    /\ FromCache("get_cached_source_variable",
                 Args(NoZone, source_id, variable, default),
                 _retrieve_cached_source_variable(source_id, variable), default)
    /\ calls' = <<>>
    /\ UNCHANGED <<loopVars, cacheVars, callbackVars, watchVars, socketVars,
                   flights>>

(***************************************************************************)
(* The callback registry (lines 213-239).                                  *)
(***************************************************************************)
\* list.remove: the first occurrence goes
Remove(list, x) ==
    LET i == Min({j \in 1..Len(list) : list[j] = x})
    IN  SubSeq(list, 1, i - 1) \o SubSeq(list, i + 1, Len(list))

add_zone_callback(callback) ==
    /\ Len(_zone_callbacks) < MaxCallbacks
    /\ _zone_callbacks' = Append(_zone_callbacks, callback)
    /\ Silent
    /\ UNCHANGED <<loopVars, _cmd_queue, futures, cacheVars, _source_callbacks,
                   watchVars, socketVars, puts, flights>>

remove_zone_callback(callback) ==
    /\ \E i \in 1..Len(_zone_callbacks) : _zone_callbacks[i] = callback
    /\ _zone_callbacks' = Remove(_zone_callbacks, callback)
    /\ Silent
    /\ UNCHANGED <<loopVars, _cmd_queue, futures, cacheVars, _source_callbacks,
                   watchVars, socketVars, puts, flights>>

add_source_callback(callback) ==
    /\ Len(_source_callbacks) < MaxCallbacks
    /\ _source_callbacks' = Append(_source_callbacks, callback)
    /\ Silent
    /\ UNCHANGED <<loopVars, _cmd_queue, futures, cacheVars, _zone_callbacks,
                   watchVars, socketVars, puts, flights>>

\* the source_id parameter is not used (line 239)
remove_source_callback(source_id, callback) ==
    /\ \E i \in 1..Len(_source_callbacks) : _source_callbacks[i] = callback
    /\ _source_callbacks' = Remove(_source_callbacks, callback)
    /\ Silent
    /\ UNCHANGED <<loopVars, _cmd_queue, futures, cacheVars, _zone_callbacks,
                   watchVars, socketVars, puts, flights>>

(***************************************************************************)
(* The watch lists.  watch_zone (lines 294-303) and watch_source (lines     *)
(* 351-358) send WATCH ... ON and are suspended until the command's future  *)
(* is done; with a result they go on to add the entity to the watched set   *)
(* and return the result, with an exception (the device's error, or the     *)
(* cancellation) they raise it and add nothing.  watch_source adds to       *)
(* self._watched_source (line 357), an attribute that __init__ (lines       *)
(* 56-71) never creates: AttributeError.  unwatch_zone (lines 305-310) and  *)
(* unwatch_source (lines 360-367) remove the entity from the set first,     *)
(* KeyError when it is not there, and then send WATCH ... OFF.              *)
(***************************************************************************)
Text_WATCH == <<"W", "A", "T", "C", "H", " ">>

Text_ON == <<" ", "O", "N">>

Text_OFF == <<" ", "O", "F", "F">>

WatchZoneText(zone_id, onoff) == Text_WATCH \o device_str(zone_id) \o onoff

WatchSourceText(source_id, onoff) == Text_WATCH \o source_str(source_id) \o onoff

Watcher(kind, zone_id, source_id, future) ==
    [kind |-> kind, zone |-> zone_id, source |-> source_id, future |-> future]

\* what a caller suspended on future f gets once f is done
FutureRaises(f) ==
    IF futures[f].state = "cancelled" THEN "CancelledError" ELSE futures[f].exc

watch_zone(zone_id) ==
    /\ _send_cmd(WatchZoneText(zone_id, Text_ON))
    /\ watching' = watching \cup {Watcher("zone", zone_id, NoSource, Len(futures) + 1)}
    /\ ret' = Awaits("watch_zone", Args(zone_id, NoSource, None, None),
                     Len(futures) + 1)
    /\ calls' = <<>>
    /\ UNCHANGED <<loopVars, cacheVars, callbackVars, _watched_zones,
                   _watched_sources, socketVars, flights>>

\* lines 302-303, once the future of line 300 is done
watch_zone_resumed(w) ==
    IF futures[w.future].state = "result"
    THEN /\ _watched_zones' = _watched_zones \cup {w.zone}
         /\ ret' = Returned("watch_zone", Args(w.zone, NoSource, None, None),
                            futures[w.future].value)
    ELSE /\ _watched_zones' = _watched_zones
         /\ ret' = Raised("watch_zone", Args(w.zone, NoSource, None, None),
                          FutureRaises(w.future))

watch_zone_resume ==
    /\ \E w \in watching :
         /\ w.kind = "zone"
         /\ futures[w.future].state # "pending"
         /\ watching' = watching \ {w}
         /\ watch_zone_resumed(w)
    /\ calls' = <<>>
    /\ UNCHANGED <<loopVars, _cmd_queue, futures, cacheVars, callbackVars,
                   _watched_sources, socketVars, puts, flights>>

unwatch_zone(zone_id) ==
    /\ IF zone_id \in _watched_zones
       THEN /\ _watched_zones' = _watched_zones \ {zone_id}
            /\ _send_cmd(WatchZoneText(zone_id, Text_OFF))
            /\ ret' = Awaits("unwatch_zone", Args(zone_id, NoSource, None, None),
                             Len(futures) + 1)
       ELSE /\ ret' = Raised("unwatch_zone", Args(zone_id, NoSource, None, None),
                             "KeyError")
            /\ UNCHANGED <<_watched_zones, _cmd_queue, futures, puts>>
    /\ calls' = <<>>
    /\ UNCHANGED <<loopVars, cacheVars, callbackVars, _watched_sources, watching,
                   socketVars, flights>>

watch_source(source_id) ==
    /\ _send_cmd(WatchSourceText(source_id, Text_ON))
    /\ watching' = watching
                      \cup {Watcher("source", NoZone, source_id, Len(futures) + 1)}
    /\ ret' = Awaits("watch_source", Args(NoZone, source_id, None, None),
                     Len(futures) + 1)
    /\ calls' = <<>>
    /\ UNCHANGED <<loopVars, cacheVars, callbackVars, _watched_zones,
                   _watched_sources, socketVars, flights>>

\* lines 357-358, once the future of line 355 is done
watch_source_resume ==
    /\ \E w \in watching :
         /\ w.kind = "source"
         /\ futures[w.future].state # "pending"
         /\ watching' = watching \ {w}
         /\ ret' = Raised("watch_source", Args(NoZone, w.source, None, None),
                          IF futures[w.future].state = "result"
                          THEN "AttributeError"
                          ELSE FutureRaises(w.future))
    /\ calls' = <<>>
    /\ UNCHANGED <<loopVars, _cmd_queue, futures, cacheVars, callbackVars,
                   _watched_zones, _watched_sources, socketVars, puts, flights>>

unwatch_source(source_id) ==
    /\ IF source_id \in _watched_sources
       THEN /\ _watched_sources' = _watched_sources \ {source_id}
            /\ _send_cmd(WatchSourceText(source_id, Text_OFF))
            /\ ret' = Awaits("unwatch_source", Args(NoZone, source_id, None, None),
                             Len(futures) + 1)
       ELSE /\ ret' = Raised("unwatch_source", Args(NoZone, source_id, None, None),
                             "KeyError")
            /\ UNCHANGED <<_watched_sources, _cmd_queue, futures, puts>>
    /\ calls' = <<>>
    /\ UNCHANGED <<loopVars, cacheVars, callbackVars, _watched_zones, watching,
                   socketVars, flights>>

(***************************************************************************)
(* send_zone_event (lines 312-318): the event name and the arguments,       *)
(* joined by spaces, go to the zone in an EVENT command.                    *)
(***************************************************************************)
Text_EVENT == <<"E", "V", "E", "N", "T", " ">>

RECURSIVE Join(_)
Join(args) ==
    IF args = <<>> THEN <<>>
    ELSE IF Len(args) = 1 THEN args[1]
    ELSE args[1] \o <<" ">> \o Join(Tail(args))

EventText(zone_id, event_name, args) ==
    Text_EVENT \o device_str(zone_id) \o <<"!">> \o event_name \o <<" ">>
               \o Join(args)

send_zone_event(zone_id, event_name, args) ==
    /\ _send_cmd(EventText(zone_id, event_name, args))
    /\ ret' = Awaits("send_zone_event",
                     Args(zone_id, NoSource, event_name, Join(args)),
                     Len(futures) + 1)
    /\ calls' = <<>>
    /\ UNCHANGED <<loopVars, cacheVars, callbackVars, watchVars, socketVars,
                   flights>>

(***************************************************************************)
(* The session: two callers' commands, lines the device sends on its own   *)
(* (a push, a status, a blank line), callers that abandon their wait.      *)
(***************************************************************************)
SessionEvents == {ZonePush, SourceStatus, Blank}

Push == DevicePush(SessionEvents, MaxLines)

CallSetZone == set_zone_variable(Zone12, Var_V, <<"9">>)

CallGetSource == get_source_variable(3, Var_n)

Next ==
    \/ connect
    \/ QueueGet
    \/ NetRead
    \/ IoloopWait
    \/ IoloopDrain
    \/ IoloopInner
    \/ DeviceReply
    \/ Push
    \/ CallSetZone
    \/ CallGetSource
    \/ CancelWait

Spec == Init /\ [][Next]_vars

\* A session under the scheduling of the event loop, which runs every task
\* that is ready (the loop task, the queue get, the socket read), and with a
\* device that answers every command it received.
FairPush == DevicePush({ZonePush, Blank}, MaxPushes)

FairNext ==
    \/ connect
    \/ QueueGet
    \/ NetRead
    \/ IoloopWait
    \/ IoloopDrain
    \/ IoloopInner
    \/ DeviceReply
    \/ FairPush
    \/ CallSetZone
    \/ CancelWait

FairSpec ==
    /\ Init /\ [][FairNext]_vars
    /\ WF_vars(QueueGet)
    /\ WF_vars(NetRead)
    /\ WF_vars(IoloopWait)
    /\ WF_vars(IoloopDrain)
    /\ WF_vars(IoloopInner)
    /\ WF_vars(DeviceReply)

(***************************************************************************)
(* The cache under a stream of updates: the device sends updates of three  *)
(* entities, one of them addressed with and without leading zeros, under   *)
(* names that differ in case only or altogether, to the idle loop.         *)
(***************************************************************************)
CachePush == DevicePush(CacheLines, MaxStores)

CacheNext ==
    \/ connect
    \/ NetRead
    \/ IoloopWait
    \/ CachePush

CacheSpec == Init /\ [][CacheNext]_vars

(***************************************************************************)
(* Readers of the cache: callers use the cached getters, under names in    *)
(* either case, for entities and variables the cache may not know, with    *)
(* and without a default, while a command is queued or in flight and the   *)
(* device pushes updates.                                                  *)
(***************************************************************************)
CachedPush == DevicePush({ZonePush, SourceStatus}, MaxPushes)

ReadCachedZone ==
    \E z \in {Zone12, Zone21}, v \in {Var_V, Var_v, Var_x}, d \in Defaults :
        get_cached_zone_variable(z, v, d)

ReadCachedSource ==
    \E i \in {3, 4}, v \in {Var_n, Var_N}, d \in Defaults :
        get_cached_source_variable(i, v, d)

CachedNext ==
    \/ connect
    \/ QueueGet
    \/ NetRead
    \/ IoloopWait
    \/ IoloopDrain
    \/ IoloopInner
    \/ DeviceReply
    \/ CachedPush
    \/ CallSetZone
    \/ ReadCachedZone
    \/ ReadCachedSource

CachedSpec == Init /\ [][CachedNext]_vars

(***************************************************************************)
(* Readers that ask the device on a miss: get_zone_variable and            *)
(* get_source_variable, under names in either case, while the device       *)
(* pushes updates and answers the GET commands.                            *)
(***************************************************************************)
ReaderPush == DevicePush({ZonePush, SourceStatus}, MaxPushes)

CallGetZone == \E v \in {Var_V, Var_v} : get_zone_variable(Zone12, v)

ReaderNext ==
    \/ connect
    \/ QueueGet
    \/ NetRead
    \/ IoloopWait
    \/ IoloopDrain
    \/ IoloopInner
    \/ DeviceReply
    \/ ReaderPush
    \/ CallGetZone
    \/ CallGetSource

ReaderSpec == Init /\ [][ReaderNext]_vars

(***************************************************************************)
(* Subscribers: callbacks are registered and removed in both registries    *)
(* while the device pushes zone and source updates, to the idle loop and   *)
(* while a command is in flight; a callback may raise.                     *)
(***************************************************************************)
SubscriberPush == DevicePush({ZonePush, SourceStatus}, MaxPushes)

AddZoneCallback == \E c \in Callbacks : add_zone_callback(c)

RemoveZoneCallback == \E c \in Callbacks : remove_zone_callback(c)

AddSourceCallback == add_source_callback("cb2")

RemoveSourceCallback == remove_source_callback(3, "cb2")

SubscriberNext ==
    \/ connect
    \/ QueueGet
    \/ NetRead
    \/ IoloopWait
    \/ IoloopDrain
    \/ IoloopInner
    \/ DeviceReply
    \/ SubscriberPush
    \/ CallSetZone
    \/ AddZoneCallback
    \/ RemoveZoneCallback
    \/ AddSourceCallback
    \/ RemoveSourceCallback

SubscriberSpec == Init /\ [][SubscriberNext]_vars

(***************************************************************************)
(* Stray lines: the device sends an error line or a blank line on its own, *)
(* to the idle loop or while a command is in flight.                       *)
(***************************************************************************)
StrayPush == DevicePush({ErrorLine, Blank}, MaxPushes)

StrayNext ==
    \/ connect
    \/ QueueGet
    \/ NetRead
    \/ IoloopWait
    \/ IoloopDrain
    \/ IoloopInner
    \/ DeviceReply
    \/ StrayPush
    \/ CallSetZone
    \/ CancelWait

StraySpec == Init /\ [][StrayNext]_vars

(***************************************************************************)
(* Shutdown: the session is closed by the caller, or the socket fails      *)
(* (the stream ends, or a read raises), idle or with a command in flight.  *)
(***************************************************************************)
ShutdownPush == DevicePush({ZonePush, EndOfStream, ReadError}, MaxPushes)

ShutdownNext ==
    \/ connect
    \/ QueueGet
    \/ NetRead
    \/ IoloopWait
    \/ IoloopDrain
    \/ IoloopInner
    \/ DeviceReply
    \/ ShutdownPush
    \/ CallSetZone
    \/ close

ShutdownSpec == Init /\ [][ShutdownNext]_vars

(***************************************************************************)
(* Watching: callers watch and unwatch a zone and a source; the device     *)
(* acknowledges or rejects each command.                                   *)
(***************************************************************************)
WatchZone == watch_zone(Zone12)

UnwatchZone == unwatch_zone(Zone12)

WatchSource == watch_source(3)

UnwatchSource == unwatch_source(3)

WatchNext ==
    \/ connect
    \/ QueueGet
    \/ NetRead
    \/ IoloopWait
    \/ IoloopDrain
    \/ IoloopInner
    \/ DeviceReply
    \/ WatchZone
    \/ watch_zone_resume
    \/ UnwatchZone
    \/ WatchSource
    \/ watch_source_resume
    \/ UnwatchSource

WatchSpec == Init /\ [][WatchNext]_vars

(***************************************************************************)
(* Callers: every operation a caller has, on a session whose device pushes *)
(* the value of a zone variable and answers the commands.                  *)
(***************************************************************************)
CallerPush == DevicePush({ZonePush}, MaxPushes)

\* the callers enqueue at most MaxCalls commands
Few == Len(futures) < MaxCalls

CallerSetZone == Few /\ CallSetZone

CallerSetSource == Few /\ set_source_variable(3, Var_n, <<"9">>)

CallerGetZone == get_zone_variable(Zone12, Var_V) /\ (puts' # puts => Few)

CallerGetSource == CallGetSource /\ (puts' # puts => Few)

CallerWatchZone == Few /\ WatchZone

CallerUnwatchZone == UnwatchZone /\ (puts' # puts => Few)

CallerWatchSource == Few /\ WatchSource

CallerUnwatchSource == UnwatchSource /\ (puts' # puts => Few)

CallGetCachedZone == get_cached_zone_variable(Zone12, Var_V, None)

CallGetCachedSource == get_cached_source_variable(3, Var_n, None)

CallerSendEvent == Few /\ send_zone_event(Zone12, <<"K">>, << <<"1">>, <<"2">> >>)

AddCallback == add_zone_callback("cb1")

RemoveCallback == remove_zone_callback("cb1")

CallerNext ==
    \/ connect
    \/ QueueGet
    \/ NetRead
    \/ IoloopWait
    \/ IoloopDrain
    \/ IoloopInner
    \/ DeviceReply
    \/ CallerPush
    \/ CallerSetZone
    \/ CallerSetSource
    \/ CallerGetZone
    \/ CallerGetSource
    \/ CallGetCachedZone
    \/ CallGetCachedSource
    \/ CallerWatchZone
    \/ watch_zone_resume
    \/ CallerUnwatchZone
    \/ CallerWatchSource
    \/ watch_source_resume
    \/ CallerUnwatchSource
    \/ CallerSendEvent
    \/ AddCallback
    \/ RemoveCallback

CallerSpec == Init /\ [][CallerNext]_vars

(***************************************************************************)
(* Properties of the session.                                              *)
(***************************************************************************)
\* the result slot of a command holds a value or a failure
Resolved(f) == futures[f].state \in {"result", "exception"}

\* the written commands whose slot is not resolved
InFlight == {i \in 1..Len(flights) : ~Resolved(flights[i])}

\* C1: at most one written command is unresolved at any time, and a command is
\* written only when every command written before it has been resolved, however
\* many commands are queued.
C1_AtMostOneInFlight ==
    /\ [](Len(flights) = Len(written) /\ Cardinality(InFlight) <= 1)
    /\ [][Len(written') > Len(written) => InFlight = {}]_vars

\* one command is in flight and unresolved while the next one has already been
\* taken from the queue and waits to be written
C1_SecondCommandHeld ==
    /\ pc = "inner"
    /\ Len(written) = 1
    /\ futures[cur.future].state = "pending"
    /\ queue_future.state = "result"
    /\ Len(futures) = 2

\* C2: the commands written are, in order, the commands enqueued: what was
\* written is a prefix of what was put on the queue, each once, none skipped,
\* and all of it once every command has been resolved.
C2_WrittenInEnqueueOrder ==
    /\ Len(written) <= Len(puts)
    /\ \A i \in 1..Len(written) :
         written[i] = puts[i] \o <<"\r">> /\ flights[i] = i
    /\ (\A f \in 1..Len(futures) : Resolved(f)) => Len(written) = Len(puts)

\* two different commands were enqueued, written and both resolved
C2_TwoCommandsServed ==
    /\ Len(written) = 2
    /\ written[1] # written[2]
    /\ \A f \in 1..Len(futures) : Resolved(f)

(***************************************************************************)
(* The step in which the loop processes a line: the read it waited for     *)
(* holds a line, and the loop re-arms the read or ends.  What the line     *)
(* says is read off its text.                                              *)
(***************************************************************************)
LineTaken ==
    /\ _ioloop_future.state = "pending"
    /\ pc \in {"wait", "inner"}
    /\ net_future.state = "result"
    /\ (net_future' # net_future \/ _ioloop_future' # _ioloop_future)
    /\ _ioloop_future'.state # "cancelled"

LineText == ScanTable[net_future.value].s

LineType == IF LineText = <<>> THEN "" ELSE LineText[1]

LinePayload == SubSeq(LineText, 3, Len(LineText))

LineMatch == ScanTable[net_future.value].m

\* the line is a status update: not an error, and its payload has the zone or
\* source address grammar
IsUpdate == LineType \notin {"", "E"} /\ LineMatch.matched

\* the value a line carries: that of the update, none otherwise
LineValue == IF IsUpdate THEN LineMatch.value ELSE None

\* the caches zs, ss hold the value of update m under the entity it names and
\* its variable in lower case
Holds(zs, ss, m) ==
    IF m.source # None
    THEN /\ int(m.source) \in DOMAIN ss
         /\ lower(m.variable) \in DOMAIN ss[int(m.source)]
         /\ ss[int(m.source)][lower(m.variable)] = m.value
    ELSE /\ ZoneID(m.zone, m.controller) \in DOMAIN zs
         /\ lower(m.variable) \in DOMAIN zs[ZoneID(m.zone, m.controller)]
         /\ zs[ZoneID(m.zone, m.controller)][lower(m.variable)] = m.value

\* C3: while a command is in flight, a line that is neither S nor E is applied
\* to the cache and leaves the command waiting, its slot untouched; a type S
\* line is applied to the cache and resolves the command with that line's value.
C3_ResolvedByFirstStatusLine ==
    [][(LineTaken /\ pc = "inner" /\ LineType \notin {"", "E"}) =>
          /\ IsUpdate => Holds(_zone_state', _source_state', LineMatch)
          /\ IF LineType = "S"
             THEN futures' = [futures EXCEPT ![cur.future] = Result(LineValue)]
             ELSE futures' = futures /\ cur' = cur /\ pc' = "inner"]_vars

\* C4: a type E line processed while a command is in flight fails that
\* command's slot with the line's payload as message, leaves the cache alone,
\* and the loop goes on to wait for the next command.
C4_ErrorFailsItsCommand ==
    [][(LineTaken /\ pc = "inner" /\ LineType = "E") =>
          /\ futures' = [futures EXCEPT ![cur.future] =
                            Exception("CommandException", LinePayload)]
          /\ UNCHANGED cacheVars
          /\ _ioloop_future' = _ioloop_future
          /\ pc' = "wait"]_vars

\* the loop task has been started and has not ended
Running == _ioloop_future.state = "pending"

\* C5: a resolved slot is never changed again, so each slot is resolved at most
\* once, with a value or with a failure; and while the loop keeps running and
\* the device answers each written command with a terminal line, the slot of
\* every enqueued command is eventually resolved.
C5_ResolvedOnceAndEventually ==
    /\ [][\A f \in 1..Len(futures) : Resolved(f) => futures'[f] = futures[f]]_vars
    /\ \A f \in 1..MaxCmds :
         (f <= Len(futures)) ~> ((f <= Len(futures) /\ Resolved(f)) \/ ~Running)

\* two commands were resolved while the loop runs, one with a value and one
\* with a failure
C5_ValueAndFailure ==
    /\ Running
    /\ Len(futures) = 2
    /\ futures[1].state = "result"
    /\ futures[2].state = "exception"

(***************************************************************************)
(* Properties of the cache and of the callbacks.                           *)
(***************************************************************************)
\* C6: every line the loop processes that is not an error and whose payload
\* has the zone or source address grammar puts its value in the cache under
\* (entity, variable in lower case), whether the loop is idle or a command is
\* in flight and whatever the type code; and a line of a type other than S or
\* E leaves the slot of the command in flight unresolved and the command in
\* flight.
C6_EveryUpdateIsCached ==
    [][LineTaken =>
          /\ IsUpdate => Holds(_zone_state', _source_state', LineMatch)
          /\ (pc = "inner" /\ LineType \notin {"", "S", "E"}) =>
                futures' = futures /\ cur' = cur /\ pc' # "wait"]_vars

\* a push of type N was processed while a command was in flight: the cache
\* holds its value and the command still waits
C6_PushCachedInFlight ==
    /\ pc = "inner"
    /\ futures[cur.future].state = "pending"
    /\ device.replied = 0
    /\ reader = <<>>
    /\ net_future.state = "pending"
    /\ Holds(_zone_state, _source_state, ScanTable[ZonePush].m)

\* the invocations a store of update m owes: every callback registered for the
\* kind of entity, once each, in registration order, with the entity, the
\* variable in lower case and the value, the cache already holding the value
Owed(m) ==
    IF m.source # None
    THEN [i \in 1..Len(_source_callbacks) |->
            [registry |-> "source", callback |-> _source_callbacks[i],
             zone |-> NoZone, source |-> int(m.source),
             name |-> lower(m.variable), value |-> m.value, seen |-> m.value]]
    ELSE [i \in 1..Len(_zone_callbacks) |->
            [registry |-> "zone", callback |-> _zone_callbacks[i],
             zone |-> ZoneID(m.zone, m.controller), source |-> NoSource,
             name |-> lower(m.variable), value |-> m.value, seen |-> m.value]]

\* C10: each store into a cache invokes every callback then registered for
\* that kind of entity exactly once, in registration order, with (id, variable
\* in lower case, value), after the cache holds the value; the other registry
\* is not invoked, a callback registered twice is invoked twice, a removed one
\* is not invoked.
C10_EveryCallbackInvoked ==
    [][(LineTaken /\ IsUpdate) => calls' = Owed(LineMatch)]_vars

(***************************************************************************)
(* Properties of the getters.  A call shows in ret in the state after it.  *)
(***************************************************************************)
\* the cache knows the variable of the entity, under its name in any case
Known(cache, id, variable) ==
    id \in DOMAIN cache /\ lower(variable) \in DOMAIN cache[id]

\* the value the cache holds for it, or miss
Value(cache, id, variable, miss) ==
    IF Known(cache, id, variable) THEN cache[id][lower(variable)] ELSE miss

\* the step changed nothing but what the call returned
Untouched ==
    /\ calls' = <<>>
    /\ UNCHANGED <<loopVars, _cmd_queue, futures, cacheVars, callbackVars,
                   watchVars, socketVars, puts, flights>>

\* C7: get_cached_zone_variable and get_cached_source_variable enqueue and
\* write nothing and leave the cache, the callback lists, the watch sets and
\* the loop as they are; they return the cached value on a hit and the
\* caller's default on a miss, be it the entity or the variable that is unknown.
C7_CachedGettersOnlyRead ==
    [][/\ ret'.call = "get_cached_zone_variable" =>
            /\ ret'.value = Value(_zone_state, ret'.args.zone,
                                  ret'.args.variable, ret'.args.arg)
            /\ ret'.future = 0
            /\ Untouched
       /\ ret'.call = "get_cached_source_variable" =>
            /\ ret'.value = Value(_source_state, ret'.args.source,
                                  ret'.args.variable, ret'.args.arg)
            /\ ret'.future = 0
            /\ Untouched]_vars

\* while a command is in flight, a cached getter asked for V of a zone whose
\* cache holds v and returned the cached value, not the default
C7_HitWhileInFlight ==
    /\ ret.call = "get_cached_zone_variable"
    /\ ret.args.variable = Var_V
    /\ ret.args.arg = <<"0">>
    /\ ret.value = <<"5">>
    /\ pc = "inner"
    /\ futures[cur.future].state = "pending"

\* the call enqueued exactly one command, text, and waits on its new slot
AsksDevice(text) ==
    /\ ret'.future = Len(futures) + 1
    /\ futures' = Append(futures, Pending)
    /\ _cmd_queue' = Append(_cmd_queue, [cmd |-> text, future |-> Len(futures) + 1])
    /\ puts' = Append(puts, text)
    /\ calls' = <<>>
    /\ UNCHANGED <<loopVars, cacheVars, callbackVars, watchVars, socketVars,
                   flights>>

\* the names callers ask for
AskedVars == {Var_V, Var_v, Var_n, Var_N}

\* C8: get_zone_variable and get_source_variable return the cached value and
\* enqueue nothing on a hit; on a miss they enqueue exactly one GET for the
\* entity and variable and wait on its slot.  When the line that resolves a
\* GET is the update of the entity and variable it asked for, the cache knows
\* the variable, and no entry ever leaves the cache, so that a further get is
\* a hit.
C8_GetAsksOnlyOnMiss ==
    /\ [][/\ ret'.call = "get_zone_variable" =>
               IF Known(_zone_state, ret'.args.zone, ret'.args.variable)
               THEN /\ ret'.value = Value(_zone_state, ret'.args.zone,
                                          ret'.args.variable, None)
                    /\ ret'.future = 0
                    /\ Untouched
               ELSE AsksDevice(GetZoneText(ret'.args.zone, ret'.args.variable))
          /\ ret'.call = "get_source_variable" =>
               IF Known(_source_state, ret'.args.source, ret'.args.variable)
               THEN /\ ret'.value = Value(_source_state, ret'.args.source,
                                          ret'.args.variable, None)
                    /\ ret'.future = 0
                    /\ Untouched
               ELSE AsksDevice(GetSourceText(ret'.args.source,
                                             ret'.args.variable))]_vars
    /\ [][(LineTaken /\ pc = "inner" /\ LineType = "S" /\ IsUpdate) =>
             \A v \in AskedVars :
                 lower(v) = lower(LineMatch.variable) =>
                    IF LineMatch.source # None
                    THEN cur.cmd = GetSourceText(int(LineMatch.source), v) =>
                            Known(_source_state', int(LineMatch.source), v)
                    ELSE cur.cmd = GetZoneText(ZoneID(LineMatch.zone,
                                                      LineMatch.controller), v) =>
                            Known(_zone_state',
                                  ZoneID(LineMatch.zone, LineMatch.controller), v)]_vars
    /\ [][/\ \A z \in DOMAIN _zone_state :
                /\ z \in DOMAIN _zone_state'
                /\ DOMAIN _zone_state[z] \subseteq DOMAIN _zone_state'[z]
          /\ \A i \in DOMAIN _source_state :
                /\ i \in DOMAIN _source_state'
                /\ DOMAIN _source_state[i] \subseteq DOMAIN _source_state'[i]]_vars

\* a get of a zone variable was answered from the cache, with the value the
\* device gave in answer to the one GET an earlier miss sent
C8_SecondGetFromCache ==
    /\ ret.call = "get_zone_variable"
    /\ ret.future = 0
    /\ ret.value = <<"7">>
    /\ Len(written) = 1
    /\ puts = <<GetZoneText(Zone12, Var_V)>>
    /\ futures[1] = Result(<<"7">>)

(***************************************************************************)
(* Properties of the cache keys.                                           *)
(***************************************************************************)
\* two names that differ at most in the case of their letters
SameLetter(a, b) ==
    a = b \/ \E j \in 1..Len(UpperChars) : {a, b} = {UpperChars[j], LowerChars[j]}

SameName(a, b) ==
    Len(a) = Len(b) /\ \A i \in 1..Len(a) : SameLetter(a[i], b[i])

\* the names under which the cache is read
ReadNames == {<<"N", "a">>, <<"n", "A">>, <<"n", "a">>, <<"N", "A">>,
              <<"b">>, <<"B">>, <<"N">>}

ReadZones == {Zone12, Zone21}

ReadSources == {1, 3}

\* C9: the key of a cache entry is the entity and the variable's name without
\* regard to case.  After the store of a value for (entity, name), reading that
\* entity under any name that differs from it in case only gives that value,
\* and reading any other entity or name gives what it gave before; a zone
\* addressed with or without leading zeros is the same entity; no entity ever
\* has two entries whose names differ in case only.
C9_KeysIgnoreCase ==
    /\ [][(LineTaken /\ IsUpdate /\ LineMatch.source = None) =>
             /\ \A z \in ReadZones, v \in ReadNames :
                  Retrieve(_zone_state', z, v) =
                     IF /\ z.controller = int(LineMatch.controller)
                        /\ z.zone = int(LineMatch.zone)
                        /\ SameName(v, LineMatch.variable)
                     THEN [found |-> TRUE, value |-> LineMatch.value]
                     ELSE Retrieve(_zone_state, z, v)
             /\ _source_state' = _source_state]_vars
    /\ [][(LineTaken /\ IsUpdate /\ LineMatch.source # None) =>
             /\ \A i \in ReadSources, v \in ReadNames :
                  Retrieve(_source_state', i, v) =
                     IF i = int(LineMatch.source) /\ SameName(v, LineMatch.variable)
                     THEN [found |-> TRUE, value |-> LineMatch.value]
                     ELSE Retrieve(_source_state, i, v)
             /\ _zone_state' = _zone_state]_vars
    /\ [](/\ \A z \in DOMAIN _zone_state : \A k1, k2 \in DOMAIN _zone_state[z] :
               SameName(k1, k2) => k1 = k2
          /\ \A i \in DOMAIN _source_state : \A k1, k2 \in DOMAIN _source_state[i] :
               SameName(k1, k2) => k1 = k2)

\* two updates were stored, both for zone 2 of controller 1 and for names that
\* differ in case at most: the zone has the one entry, with the later value,
\* and no other entity has any
C9_OneEntryLastValue ==
    /\ device.sent = 2
    /\ reader = <<>>
    /\ net_future.state = "pending"
    /\ Running
    /\ DOMAIN _zone_state = {Zone12}
    /\ DOMAIN _source_state = {}
    /\ DOMAIN _zone_state[Zone12] = {<<"n", "a">>}
    /\ _zone_state[Zone12][<<"n", "a">>] = <<"B">>

(***************************************************************************)
(* Properties of the lines that answer no command.                         *)
(***************************************************************************)
\* C11: a line that is neither an error line, nor a type S line, nor an
\* addressed update, a blank line among them, is dropped: processing it
\* changes no cache entry, resolves or fails no slot and leaves the loop
\* running, idle or with a command in flight.
C11_UnmatchedLineDropped ==
    [][(LineTaken /\ LineType \notin {"E", "S"} /\ ~IsUpdate) =>
          /\ UNCHANGED cacheVars
          /\ futures' = futures
          /\ _ioloop_future' = _ioloop_future]_vars

\* C12: a type E line processed while no command is in flight changes no cache
\* entry, resolves or fails no slot, invokes nothing and leaves the loop
\* running; and it is not kept for a later command: a slot is resolved only in
\* the step that processes a type S or E line while its command, written
\* before, is the one in flight.
C12_IdleErrorDropped ==
    /\ [][(LineTaken /\ pc = "wait" /\ LineType = "E") =>
             /\ UNCHANGED cacheVars
             /\ futures' = futures
             /\ calls' = <<>>
             /\ _ioloop_future' = _ioloop_future]_vars
    /\ [][\A f \in 1..Len(futures) :
             (~Resolved(f) /\ futures'[f].state \in {"result", "exception"}) =>
                /\ LineTaken
                /\ pc = "inner"
                /\ LineType \in {"S", "E"}
                /\ cur.future = f
                /\ \E i \in 1..Len(flights) : flights[i] = f]_vars

\* the device sent an error line on its own and the loop, idle, processed it
\* and runs on: the one command written was resolved by its acknowledgement
C12_CommandServedDespiteError ==
    /\ Running
    /\ device.sent = 1
    /\ reader = <<>>
    /\ net_future.state = "pending"
    /\ flights = <<1>>
    /\ device.replied = 1
    /\ futures[1] = Result(None)

(***************************************************************************)
(* Properties of the shutdown.                                             *)
(***************************************************************************)
\* C13: close, in whatever state after connect, returns normally with the
\* loop ended and the writer closed; and once the writer is closed no command
\* is written and no cache entry changes.
C13_CloseAlwaysCloses ==
    /\ [][ret'.call = "close" =>
             /\ ret'.exc = "none"
             /\ writer_closed'
             /\ _ioloop_future'.state # "pending"]_vars
    /\ [][writer_closed => written' = written /\ UNCHANGED cacheVars]_vars

\* C14: from the step in which close cancels the loop, no slot changes: the
\* command in flight and the queued ones stay pending, neither given a value
\* nor failed nor cancelled; nothing is taken off the queue and nothing is
\* written.
C14_CloseLeavesSlotsPending ==
    [][_ioloop_future'.state = "cancelled" =>
          /\ \A f \in 1..Len(futures) : futures'[f] = futures[f]
          /\ Len(_cmd_queue') >= Len(_cmd_queue)
          /\ written' = written]_vars

\* close cancelled the loop while the first command was in flight and the
\* second waited in the queue; both slots are pending
C14_ClosedWithTwoPending ==
    /\ _ioloop_future.state = "cancelled"
    /\ writer_closed
    /\ flights = <<1>>
    /\ cur.future = 1
    /\ Len(_cmd_queue) = 1
    /\ futures = <<Pending, Pending>>

\* the step in which the running loop looks at the read it waited for
ReadTaken ==
    /\ _ioloop_future.state = "pending"
    /\ pc \in {"wait", "inner"}
    /\ Done(net_future)
    /\ (net_future' # net_future \/ _ioloop_future' # _ioloop_future)
    /\ _ioloop_future'.state # "cancelled"

SocketFailed ==
    \/ net_future.state = "exception"
    \/ net_future.state = "result" /\ net_future.value = EndOfStream

\* C15: when the read the loop waited for raised or gave the empty read of the
\* end of the stream, the loop ends with an exception in that step, idle or
\* with a command in flight, without writing anything or changing the cache;
\* and once the loop has ended with an exception it stays ended, nothing is
\* written and no cache entry changes.
C15_SocketFailureIsFatal ==
    /\ [][(ReadTaken /\ SocketFailed) =>
             /\ _ioloop_future'.state = "exception"
             /\ written' = written
             /\ UNCHANGED cacheVars]_vars
    /\ [][_ioloop_future.state = "exception" =>
             /\ _ioloop_future' = _ioloop_future
             /\ written' = written
             /\ UNCHANGED cacheVars]_vars

\* the stream ended while the first command was in flight: the loop ended with
\* the exception and the command is still unresolved
C15_EndOfStreamInFlight ==
    /\ _ioloop_future.state = "exception"
    /\ _ioloop_future.exc = "IndexError"
    /\ device.ended
    /\ cur.future = 1
    /\ futures[1] = Pending

(***************************************************************************)
(* Properties of the correlation of lines and commands, and of what the    *)
(* session survives.                                                       *)
(***************************************************************************)
\* C16: the command in flight is resolved by the first type S or type E line the
\* loop processes after it wrote the command, with that line's value or
\* message whatever the line addresses; and a slot is resolved only so: a line
\* processed while the loop was idle, the one taken in the same wake-up as the
\* command among them, resolves nothing.
C16_ResolvedByPosition ==
    /\ [][(LineTaken /\ pc = "inner" /\ LineType \in {"S", "E"}) =>
             /\ futures'[cur.future] =
                   IF LineType = "E"
                   THEN Exception("CommandException", LinePayload)
                   ELSE Result(LineValue)
             /\ cur' = NoCommand]_vars
    /\ [][(LineTaken /\ pc = "wait") => futures' = futures]_vars

\* C17: a callback that raises does not stop the session: the step that
\* processes an update line leaves the loop running with the value cached,
\* and resolves the command in flight when the line is of type S.
C17_CallbackFailureSurvived ==
    [][(LineTaken /\ IsUpdate) =>
          /\ _ioloop_future'.state = "pending"
          /\ Holds(_zone_state', _source_state', LineMatch)
          /\ (pc = "inner" /\ LineType = "S") =>
                (cur' = NoCommand /\ pc' = "wait")]_vars

\* C18: when the caller of the command in flight has cancelled its wait, the
\* loop consumes the terminal line of that command, leaves the cancelled slot
\* and every other slot as they are, keeps running and goes on to the next
\* command.
C18_AbandonedWaitSurvived ==
    [][(LineTaken /\ pc = "inner" /\ LineType \in {"S", "E"}
          /\ futures[cur.future].state = "cancelled") =>
          /\ _ioloop_future'.state = "pending"
          /\ pc' = "wait"
          /\ futures' = futures]_vars

(***************************************************************************)
(* Properties of the watch lists and of the callers' operations.           *)
(***************************************************************************)
\* the entity of a watch call is in the watched set of its kind
Watched(w, zones, sources) ==
    IF w.kind = "zone" THEN w.zone \in zones ELSE w.source \in sources

\* C19: for zones and for sources alike, a watch whose command the device
\* acknowledged returns the acknowledgement and leaves the entity in the
\* watched set; a watch whose command the device rejected leaves the sets as
\* they were; an unwatch of a watched entity removes it from the set and
\* enqueues exactly one WATCH ... OFF command for it.
C19_WatchBookkeeping ==
    /\ [][\A w \in watching \ watching' :
             IF futures[w.future].state = "result"
             THEN /\ ret'.exc = "none"
                  /\ ret'.value = futures[w.future].value
                  /\ Watched(w, _watched_zones', _watched_sources')
             ELSE /\ _watched_zones' = _watched_zones
                  /\ _watched_sources' = _watched_sources]_vars
    /\ [][(ret'.call = "unwatch_zone" /\ ret'.args.zone \in _watched_zones) =>
             /\ _watched_zones' = _watched_zones \ {ret'.args.zone}
             /\ puts' = Append(puts, WatchZoneText(ret'.args.zone, Text_OFF))]_vars
    /\ [][(ret'.call = "unwatch_source"
             /\ ret'.args.source \in _watched_sources) =>
             /\ _watched_sources' = _watched_sources \ {ret'.args.source}
             /\ puts' = Append(puts, WatchSourceText(ret'.args.source,
                                                     Text_OFF))]_vars

\* C20: only the step in which the loop processes a line changes a cache or
\* invokes a callback: no call of a caller does.  The bare acknowledgement of
\* a SET changes no cache entry either, so a get of a variable the cache
\* knows returns the cached value at once, the one from before the SET, and
\* asks the device nothing.
C20_OnlyLinesChangeCache ==
    /\ [][~LineTaken => (UNCHANGED cacheVars /\ calls' = <<>>)]_vars
    /\ [][(LineTaken /\ LineType = "S" /\ ~IsUpdate) => UNCHANGED cacheVars]_vars
    /\ [][(ret'.call = "get_zone_variable"
             /\ Known(_zone_state, ret'.args.zone, ret'.args.variable)) =>
             /\ ret'.future = 0
             /\ ret'.value = Value(_zone_state, ret'.args.zone,
                                   ret'.args.variable, None)
             /\ puts' = puts]_vars

\* the device pushed V = 5 for the zone, a SET of V to 9 was acknowledged with
\* a bare S, and the get of V that follows returns 5 from the cache
C20_GetAfterSetReturnsOldValue ==
    /\ ret = Returned("get_zone_variable", Args(Zone12, NoSource, Var_V, None),
                      <<"5">>)
    /\ puts = <<SetZoneText(Zone12, Var_V, <<"9">>)>>
    /\ futures = <<Result(None)>>
    /\ Value(_zone_state, Zone12, Var_V, None) = <<"5">>
=============================================================================
